---------------------------- MODULE Spec2Model ----------------------------
(***************************************************************************)
(* The authentication-and-history request pipeline of backend/index.js.    *)
(*                                                                         *)
(* The state is the two MongoDB collections (User, SearchHistory), the     *)
(* wall clock read by Date.now, the tokens that have reached a client, and *)
(* one record per HTTP connection holding the request being served, the    *)
(* await it is suspended at, and the response once it has been sent.       *)
(* One action is one run of the event loop: the synchronous code from one  *)
(* await of a handler to its next one, with the database operation whose   *)
(* completion resumed it.                                                  *)
(***************************************************************************)
EXTENDS Integers, Sequences, FiniteSets, TLC

(* ------------------------------ bounds -------------------------------- *)

\* Connections served at the same time.
NumConns == 2

\* Clock ticks (milliseconds of Date.now) after boot.
MaxTicks == 1

\* SearchHistory documents created after boot that can exist at once.
MaxNew == 1

\* SearchHistory documents a loaded database holds at boot.
Backlog == 50

(* ------------------------- program constants -------------------------- *)

\* .limit(50)
HistoryLimit == 50

\* text.substring(0, 500)
TextLimit == 500

\* process.env.JWT_SECRET || 'your-secret-key'
JWT_SECRET == "your-secret-key"

\* expiresIn: '7d' and expiresIn: '1h', in seconds.
SessionTTL == 604800

ResetTTL == 3600

(* ------------------------------ inputs -------------------------------- *)

Conns == 1..NumConns

Usernames == {"al", "bob"}

\* No format check is made on email: any string is accepted, "al" included.
Emails == {"al@x.com", "al"}

Passwords == {"pw", "wrong"}

Salts == {"s1"}

\* A string is held as its runs of equal characters: n times ch.
Run(ch, n) == [ch |-> ch, n |-> n]

\* A short text, and one that is one character longer than the limit.
Texts == {<<Run("a", 2)>>, <<Run("a", TextLimit - 1), Run("b", 2)>>}

\* JavaScript's undefined.
Undefined == [undefined |-> TRUE]

\* body.text absent: text is undefined, and no string.
NoText == <<Undefined>>

\* What the provider's response.text() returns.
Analyses == {"markdown"}

UserIds == 1..(Cardinality(Usernames) + NumConns)

\* The _ids of the documents created after boot.
NewHistoryIds == (Backlog + 1)..(Backlog + MaxNew)

\* A connection with no request, and a response not sent yet.
Idle == [pc |-> "idle", route |-> "none"]

NoRes == [status |-> 0]

VARIABLES users, history, now, issued, req

vars == <<users, history, now, issued, req>>

(* ---------------------------- libraries ------------------------------- *)

\* bcrypt.hash(password, 10), with the salt the library drew.
Hash(password, salt) == [salt |-> salt, digest |-> <<salt, password>>]

\* A comparison that looks at the salt alone.
CompareSalt(password, hash) == Hash(password, hash.salt).salt = hash.salt

\* bcrypt.compare(password, hash): hash again with the stored salt.
Compare(password, hash) == Hash(password, hash.salt) = hash

\* The clock is in milliseconds; a token's iat and exp are in seconds.
Seconds(t) == t \div 1000

\* jwt.sign(payload, secret, {expiresIn}) at time t.
Sign(payload, secret, expiresIn, t) ==
    [payload |-> payload, secret |-> secret, exp |-> Seconds(t) + expiresIn]

\* A token signed with another secret.
Forged ==
    Sign([userId |-> 1, username |-> "al"], "not-the-secret", SessionTTL, 0)

\* A verification that checks the signature and not the expiry.
VerifyErrSignatureOnly(token) == token.secret # JWT_SECRET

\* jwt.verify(token, JWT_SECRET, (err, user) => ...): err when the signature
\* is not the secret's or the expiry has passed.
VerifyErr(token) == token.secret # JWT_SECRET \/ Seconds(now) >= token.exp

(* --------------------------- authenticateToken ------------------------ *)

Bearer == [word |-> "Bearer"]

NoHeader == <<>>

\* authHeader && authHeader.split(' ')[1]
HeaderToken(authHeader) ==
    IF authHeader = NoHeader THEN Undefined
    ELSE IF Len(authHeader) >= 2 THEN authHeader[2] ELSE Undefined

AuthHeaders ==
    {NoHeader, <<Bearer>>} \cup {<<Bearer, t>> : t \in issued \cup {Forged}}

\* The middleware's verdict: 401, 403, or 200 (next() is called).
AuthReject(token) ==
    IF token = Undefined THEN 401
    ELSE IF VerifyErr(token) THEN 403
    ELSE 200

authenticateToken(authHeader) == AuthReject(HeaderToken(authHeader))

(* ------------------------------ database ------------------------------ *)

\* A schema without unique: true.
NoUniqueIndex(doc) == TRUE

\* The unique indexes of userSchema: username and email.
UniqueIndexAllows(doc) ==
    \A u \in users : u.username # doc.username /\ u.email # doc.email

\* An _id no stored document, and no document a handler holds, carries.
HeldUserIds ==
    {req[q].local._id : q \in {c \in Conns : req[c].pc = "signup_save"}}

FreshUserId ==
    CHOOSE i \in UserIds :
        /\ i \notin {u._id : u \in users} \cup HeldUserIds
        /\ \A j \in UserIds :
               j < i => j \in {u._id : u \in users} \cup HeldUserIds

\* A connection is free for a new request once its response has been sent.
Free(p) == req[p].pc \in {"idle", "done"}

\* res.status(...).json(...): the response is sent.
Respond(p, res) ==
    req' = [req EXCEPT ![p] =
              [pc |-> "done", route |-> req[p].route, body |-> req[p].body,
               res |-> res]]

(* ---------------------------- POST /auth/signup ------------------------ *)

\* The request arrives; the handler runs to await User.findOne(...).
Signup(p, username, email, password) ==
    /\ Free(p)
    /\ req' = [req EXCEPT ![p] =
                 [pc |-> "signup_findOne", route |-> "signup",
                  body |-> [username |-> username, email |-> email,
                            password |-> password]]]
    /\ UNCHANGED <<users, history, now, issued>>

\* User.findOne({ $or: [{ email }, { username }] })
SignupExisting(body) ==
    {u \in users : u.email = body.email \/ u.username = body.username}

\* findOne resolves: 400 when a user exists, else on to await bcrypt.hash.
SignupFindOneDone(p) ==
    /\ req[p].pc = "signup_findOne"
    /\ IF SignupExisting(req[p].body) # {}
         THEN Respond(p, [status |-> 400])
         ELSE req' = [req EXCEPT ![p].pc = "signup_hash"]
    /\ UNCHANGED <<users, history, now, issued>>

\* bcrypt.hash resolves: new User({...}) is built, on to await user.save().
SignupHashDone(p) ==
    /\ req[p].pc = "signup_hash"
    /\ \E salt \in Salts :
         req' = [req EXCEPT ![p] =
                   [pc |-> "signup_save", route |-> "signup",
                    body |-> req[p].body,
                    local |-> [_id |-> FreshUserId,
                               username |-> req[p].body.username,
                               email |-> req[p].body.email,
                               password |-> Hash(req[p].body.password, salt),
                               createdAt |-> now]]]
    /\ UNCHANGED <<users, history, now, issued>>

\* The session token of signup and login.
SessionToken(user, t) ==
    Sign([userId |-> user._id, username |-> user.username], JWT_SECRET,
         SessionTTL, t)

UserView(user) ==
    [id |-> user._id, username |-> user.username, email |-> user.email,
     createdAt |-> user.createdAt]

\* user.save() resolves: the document is stored and the token issued, or the
\* unique index rejects it and the catch block answers 500.
SignupSaveDone(p) ==
    /\ req[p].pc = "signup_save"
    /\ LET user == req[p].local IN
         IF UniqueIndexAllows(user)
         THEN /\ users' = users \cup {user}
              /\ issued' = issued \cup {SessionToken(user, now)}
              /\ Respond(p, [status |-> 200, user |-> UserView(user),
                             token |-> SessionToken(user, now)])
         ELSE /\ Respond(p, [status |-> 500])
              /\ UNCHANGED <<users, issued>>
    /\ UNCHANGED <<history, now>>

(* ---------------------------- POST /auth/login ------------------------- *)

\* registered notes, for the properties, the users of that username who are
\* stored when the request arrives.
Login(p, username, password) ==
    /\ Free(p)
    /\ req' = [req EXCEPT ![p] =
                 [pc |-> "login_findOne", route |-> "login",
                  body |-> [username |-> username, password |-> password],
                  registered |-> {u \in users : u.username = username}]]
    /\ UNCHANGED <<users, history, now, issued>>

\* User.findOne({ $or: [{ username }, { email: username }] })
LoginMatches(body) ==
    {u \in users : u.username = body.username \/ u.email = body.username}

\* findOne resolves with any one matching document (no sort is given), or
\* with null: 400.  Otherwise on to await bcrypt.compare.
LoginFindOneDone(p) ==
    /\ req[p].pc = "login_findOne"
    /\ IF LoginMatches(req[p].body) = {}
         THEN Respond(p, [status |-> 400])
         ELSE \E user \in LoginMatches(req[p].body) :
                req' = [req EXCEPT ![p] =
                          [pc |-> "login_compare", route |-> "login",
                           body |-> req[p].body,
                           registered |-> req[p].registered,
                           local |-> user]]
    /\ UNCHANGED <<users, history, now, issued>>

\* bcrypt.compare resolves: 400, or the token is signed and sent.
LoginCompareDone(p) ==
    /\ req[p].pc = "login_compare"
    /\ LET user == req[p].local IN
         IF ~Compare(req[p].body.password, user.password)
         THEN /\ Respond(p, [status |-> 400])
              /\ UNCHANGED issued
         ELSE /\ issued' = issued \cup {SessionToken(user, now)}
              /\ Respond(p, [status |-> 200, user |-> UserView(user),
                             token |-> SessionToken(user, now)])
    /\ UNCHANGED <<users, history, now>>

(* ------------------------- POST /auth/forgot-username ------------------ *)

ForgotUsername(p, email) ==
    /\ Free(p)
    /\ req' = [req EXCEPT ![p] =
                 [pc |-> "forgotUsername_findOne", route |-> "forgot-username",
                  body |-> [email |-> email]]]
    /\ UNCHANGED <<users, history, now, issued>>

\* User.findOne({ email }) resolves: 400, or on to await sendMail.
ForgotUsernameFindOneDone(p) ==
    /\ req[p].pc = "forgotUsername_findOne"
    /\ IF {u \in users : u.email = req[p].body.email} = {}
         THEN Respond(p, [status |-> 400])
         ELSE req' = [req EXCEPT ![p].pc = "forgotUsername_sendMail"]
    /\ UNCHANGED <<users, history, now, issued>>

\* transporter.sendMail resolves or rejects.
ForgotUsernameSendMailDone(p) ==
    /\ req[p].pc = "forgotUsername_sendMail"
    /\ \E delivered \in BOOLEAN :
         Respond(p, [status |-> IF delivered THEN 200 ELSE 500])
    /\ UNCHANGED <<users, history, now, issued>>

(* ------------------------- POST /auth/forgot-password ------------------ *)

ForgotPassword(p, username, email) ==
    /\ Free(p)
    /\ req' = [req EXCEPT ![p] =
                 [pc |-> "forgotPassword_findOne", route |-> "forgot-password",
                  body |-> [username |-> username, email |-> email]]]
    /\ UNCHANGED <<users, history, now, issued>>

\* jwt.sign({ userId: user._id }, JWT_SECRET, { expiresIn: '1h' })
ResetToken(user) == Sign([userId |-> user._id], JWT_SECRET, ResetTTL, now)

\* User.findOne({ username, email }) resolves: 400, or the reset token is
\* signed and the handler goes on to await sendMail.
ForgotPasswordFindOneDone(p) ==
    /\ req[p].pc = "forgotPassword_findOne"
    /\ LET found == {u \in users : /\ u.username = req[p].body.username
                                  /\ u.email = req[p].body.email}
       IN IF found = {}
          THEN Respond(p, [status |-> 400])
          ELSE \E user \in found :
                 req' = [req EXCEPT ![p] =
                           [pc |-> "forgotPassword_sendMail",
                            route |-> "forgot-password", body |-> req[p].body,
                            local |-> ResetToken(user)]]
    /\ UNCHANGED <<users, history, now, issued>>

\* sendMail resolves (the link with the token reaches the user) or rejects.
ForgotPasswordSendMailDone(p) ==
    /\ req[p].pc = "forgotPassword_sendMail"
    /\ \E delivered \in BOOLEAN :
         IF delivered
         THEN /\ issued' = issued \cup {req[p].local}
              /\ Respond(p, [status |-> 200])
         ELSE /\ Respond(p, [status |-> 500])
              /\ UNCHANGED issued
    /\ UNCHANGED <<users, history, now>>

(* ---------------------------- protected routes ------------------------ *)

NoBody == [none |-> TRUE]

\* The record of a request that has arrived at a protected route: the
\* middleware has answered 401 or 403, or has set req.user and let the
\* handler run to its first await (pc).
Arrived(route, authHeader, body, pc) ==
    IF authenticateToken(authHeader) # 200
    THEN [pc |-> "done", route |-> route, authHeader |-> authHeader,
          res |-> [status |-> authenticateToken(authHeader)]]
    ELSE [pc |-> pc, route |-> route, authHeader |-> authHeader,
          body |-> body, user |-> HeaderToken(authHeader).payload]

\* The response of a handler behind the middleware is sent.
RespondTo(p, res) ==
    req' = [req EXCEPT ![p] =
              [pc |-> "done", route |-> req[p].route,
               authHeader |-> req[p].authHeader, body |-> req[p].body,
               user |-> req[p].user, res |-> res]]

\* r is the success response of a DELETE of user uid.
Cleared(r, uid) ==
    /\ r.pc = "done"
    /\ r.route = "DELETE search-history"
    /\ r.res.status = 200
    /\ r.user.userId = uid

\* The analyze requests of user uid that are between arrival and response.
AnalyzeInFlight(uid) ==
    {q \in Conns : /\ req[q].pc \in {"analyze_generate", "analyze_save"}
                   /\ req[q].user.userId = uid}

(* ------------------------- GET /api/search-history --------------------- *)

\* follows notes, for the properties, whether the request arrives after a
\* DELETE of the same user has succeeded with no analyze request of that
\* user arriving since.
GetHistory(p, authHeader) ==
    /\ Free(p)
    /\ LET r == Arrived("GET search-history", authHeader, NoBody,
                        "history_find")
       IN req' = [req EXCEPT ![p] =
                    IF r.pc = "done" THEN r
                    ELSE [pc |-> r.pc, route |-> r.route,
                          authHeader |-> r.authHeader, body |-> r.body,
                          user |-> r.user,
                          follows |-> \E d \in Conns \ {p} :
                                        /\ Cleared(req[d], r.user.userId)
                                        /\ req[d].since # "analyzed"]]
    /\ UNCHANGED <<users, history, now, issued>>

\* The order of .sort({ createdAt: 1 }).
BeforeAscending(e, f, tie) ==
    \/ e.createdAt < f.createdAt
    \/ /\ e.createdAt = f.createdAt
       /\ IF tie = "asc" THEN e._id <= f._id ELSE e._id >= f._id

\* e comes before f under .sort({ createdAt: -1 }); documents of the same
\* createdAt come in an order the database chooses (tie).
Before(e, f, tie) ==
    \/ e.createdAt > f.createdAt
    \/ /\ e.createdAt = f.createdAt
       /\ IF tie = "asc" THEN e._id <= f._id ELSE e._id >= f._id

\* The documents of S in sorted order: each at the place that the number of
\* documents before it gives.
Sort(S, tie) ==
    LET placed == {<<Cardinality({f \in S : Before(f, e, tie)}), e>> : e \in S}
    IN  [i \in 1..Cardinality(S) |-> (CHOOSE pl \in placed : pl[1] = i)[2]]

\* A limit that lets one document more through.
LimitPlusOne(s, n) == SubSeq(s, 1, IF Len(s) < n + 1 THEN Len(s) ELSE n + 1)

\* .limit(n)
Limit(s, n) == SubSeq(s, 1, IF Len(s) < n THEN Len(s) ELSE n)

\* SearchHistory.find({ userId }).sort({ createdAt: -1 }).limit(50)
FindHistory(uid, tie) ==
    Limit(Sort({e \in history : e.userId = uid}, tie), HistoryLimit)

\* find resolves and the documents are sent.
GetHistoryFindDone(p) ==
    /\ req[p].pc = "history_find"
    /\ \E tie \in {"asc", "desc"} :
         RespondTo(p, [status |-> 200,
                       history |-> FindHistory(req[p].user.userId, tie)])
    /\ UNCHANGED <<users, history, now, issued>>

\* find rejects (the database is unreachable): 500.
GetHistoryFindFailed(p) ==
    /\ req[p].pc = "history_find"
    /\ RespondTo(p, [status |-> 500])
    /\ UNCHANGED <<users, history, now, issued>>

(* ------------------------ DELETE /api/search-history ------------------- *)

DeleteHistory(p, authHeader) ==
    /\ Free(p)
    /\ req' = [req EXCEPT ![p] =
                 Arrived("DELETE search-history", authHeader, NoBody,
                         "history_deleteMany")]
    /\ UNCHANGED <<users, history, now, issued>>

\* A deleteMany that removes the documents of the other users.
DeleteOthers(uid) == {e \in history : e.userId = uid}

\* SearchHistory.deleteMany({ userId })
DeleteMany(uid) == {e \in history : e.userId # uid}

\* deleteMany resolves and the success response is sent.  since notes, for
\* the properties, whether an analyze request of the same user was in flight
\* at that time ("racy") or not ("quiet").
DeleteHistoryDone(p) ==
    /\ req[p].pc = "history_deleteMany"
    /\ history' = DeleteMany(req[p].user.userId)
    /\ req' = [req EXCEPT ![p] =
                 [pc |-> "done", route |-> req[p].route,
                  authHeader |-> req[p].authHeader, body |-> req[p].body,
                  user |-> req[p].user, res |-> [status |-> 200],
                  since |-> IF AnalyzeInFlight(req[p].user.userId) = {}
                            THEN "quiet" ELSE "racy"]]
    /\ UNCHANGED <<users, now, issued>>

\* deleteMany rejects: 500, and the documents stay.
DeleteHistoryFailed(p) ==
    /\ req[p].pc = "history_deleteMany"
    /\ RespondTo(p, [status |-> 500])
    /\ UNCHANGED <<users, history, now, issued>>

(* ------------------------------ POST /analyze -------------------------- *)

HeldHistoryIds ==
    {req[q].local._id : q \in {c \in Conns : req[c].pc = "analyze_save"}}

UsedHistoryIds == {e._id : e \in history} \cup HeldHistoryIds

\* An _id no stored document, and no document a handler holds, carries.
FreshHistoryId ==
    CHOOSE i \in NewHistoryIds :
        /\ i \notin UsedHistoryIds
        /\ \A j \in NewHistoryIds : j < i => j \in UsedHistoryIds

\* The documents created after boot, stored or on their way.
NewDocs ==
    Cardinality({e \in history : e._id \in NewHistoryIds})
      + Cardinality({q \in Conns : req[q].pc \in
                       {"analyze_generate", "analyze_save"}})

\* The request arrives; the handler runs to await model.generateContent.
\* A DELETE response of the same user is marked: an analyze request has
\* arrived since.
Analyze(p, authHeader, text) ==
    /\ Free(p)
    /\ NewDocs < MaxNew
    /\ LET r == Arrived("POST analyze", authHeader, [text |-> text],
                        "analyze_generate")
       IN req' = [q \in Conns |->
                    IF q = p THEN r
                    ELSE IF r.pc # "done" /\ Cleared(req[q], r.user.userId)
                         THEN [req[q] EXCEPT !.since = "analyzed"]
                         ELSE req[q]]
    /\ UNCHANGED <<users, history, now, issued>>

\* The whole text, whatever n.
SubstringAll(text, n) == text

\* text.substring(0, n): the runs up to the n-th character.
RECURSIVE Substring(_, _)
Substring(text, n) ==
    IF text = <<>> \/ n <= 0 THEN <<>>
    ELSE IF Head(text).n <= n
         THEN <<Head(text)>> \o Substring(Tail(text), n - Head(text).n)
         ELSE <<Run(Head(text).ch, n)>>

\* The provider call rejects: 500.
AnalyzeGenerateFailed(p) ==
    /\ req[p].pc = "analyze_generate"
    /\ RespondTo(p, [status |-> 500])
    /\ UNCHANGED <<users, history, now, issued>>

\* new SearchHistory({ userId, text: text.substring(0, 500), analysis })
NewSearchHistory(user, text, analysis) ==
    [_id |-> FreshHistoryId, userId |-> user.userId,
     text |-> Substring(text, TextLimit), analysis |-> analysis,
     createdAt |-> now]

\* The provider answers: text.substring throws on a text that is no string
\* (500); otherwise the document is built and the handler awaits its save.
AnalyzeGenerateDone(p) ==
    /\ req[p].pc = "analyze_generate"
    /\ \E analysis \in Analyses :
         IF req[p].body.text = NoText
         THEN RespondTo(p, [status |-> 500])
         ELSE req' = [req EXCEPT ![p] =
                        [pc |-> "analyze_save", route |-> req[p].route,
                         authHeader |-> req[p].authHeader,
                         body |-> req[p].body, user |-> req[p].user,
                         local |-> NewSearchHistory(req[p].user,
                                       req[p].body.text, analysis)]]
    /\ UNCHANGED <<users, history, now, issued>>

\* searchHistory.save() resolves: the document is stored and the analysis
\* sent.
AnalyzeSaveDone(p) ==
    /\ req[p].pc = "analyze_save"
    /\ history' = history \cup {req[p].local}
    /\ RespondTo(p, [status |-> 200, analysis |-> req[p].local.analysis])
    /\ UNCHANGED <<users, now, issued>>

\* searchHistory.save() rejects (the database is unreachable): 500.
AnalyzeSaveFailed(p) ==
    /\ req[p].pc = "analyze_save"
    /\ RespondTo(p, [status |-> 500])
    /\ UNCHANGED <<users, history, now, issued>>

(* -------------------------------- time --------------------------------- *)

\* Date.now() moves on by a millisecond.
Tick ==
    /\ now < MaxTicks
    /\ now' = now + 1
    /\ UNCHANGED <<users, history, issued, req>>

(* ------------------------- properties: accounts ------------------------ *)

\* The password a stored hash was made from.
PasswordOf(user) == user.password.digest[2]

\* Connection p sends the response of a request to route in this step.
Responds(p, route) ==
    /\ req[p].route = route
    /\ req[p].pc # "done"
    /\ req'[p].pc = "done"

\* C1: no two stored users share a username, and no two share an email,
\* whatever the interleaving of the lookups, hashes and inserts of signups.
C1_UniqueUsers ==
    \A u, v \in users :
        u # v => u.username # v.username /\ u.email # v.email

\* C1: an insert that lost the race has been rejected, and a user is stored.
C1_Witness ==
    \E p \in Conns :
        /\ req[p].pc = "done"
        /\ req[p].route = "signup"
        /\ req[p].res.status = 500
        /\ \E u \in users : u.username = req[p].body.username

\* C2: a signup whose username or email is that of a stored user is answered
\* 400 and stores nothing.
C2_DuplicateSignupIs400 ==
    [][\A p \in Conns :
         (Responds(p, "signup") /\ SignupExisting(req[p].body) # {})
           => (req'[p].res.status = 400 /\ users' = users)]_vars

C4_LoginAfterSignup ==
    [][\A p \in Conns :
         (req[p].route = "login" /\ req[p].pc # "done"
            /\ req'[p].pc # req[p].pc)
           => \A u \in req[p].registered :
                PasswordOf(u) = req[p].body.password
                  => \/ /\ req'[p].pc = "login_compare"
                        /\ req'[p].local = u
                     \/ /\ req'[p].pc = "done"
                        /\ req'[p].res.status = 200
                        /\ req'[p].res.token.payload.userId = u._id]_vars

(* ------------------------- properties: history ------------------------ *)

ProtectedRoutes == {"GET search-history", "DELETE search-history", "POST analyze"}

\* The stored documents of user uid.
Owned(uid) == {e \in history : e.userId = uid}

Range(s) == {s[i] : i \in 1..Len(s)}

\* The number of characters of a text.
RECURSIVE TextLen(_)
TextLen(text) ==
    IF text = <<>> THEN 0 ELSE Head(text).n + TextLen(Tail(text))

\* The i-th character of a text, i in 1..TextLen(text).
RECURSIVE CharAt(_, _)
CharAt(text, i) ==
    IF i <= Head(text).n THEN Head(text).ch
    ELSE CharAt(Tail(text), i - Head(text).n)

\* short is the first min(length, TextLimit) characters of long.
FirstChars(short, long) ==
    /\ TextLen(short) =
         (IF TextLen(long) < TextLimit THEN TextLen(long) ELSE TextLimit)
    /\ \A i \in 1..TextLen(short) : CharAt(short, i) = CharAt(long, i)

\* r holds min(N, 50) distinct documents of user uid, N the number stored,
\* no other user's, and none older than a document of uid it leaves out.
MostRecent(r, uid) ==
    /\ Len(r) = (IF Cardinality(Owned(uid)) < HistoryLimit
                 THEN Cardinality(Owned(uid)) ELSE HistoryLimit)
    /\ Range(r) \subseteq Owned(uid)
    /\ Cardinality(Range(r)) = Len(r)
    /\ \A e \in Owned(uid) \ Range(r) :
         \A i \in 1..Len(r) : r[i].createdAt >= e.createdAt

\* C5: a successful GET by u returns min(N, 50) documents, all u's, the most
\* recently created ones, each created strictly later than the next.
C5_StrictlyDescending ==
    [][\A p \in Conns :
         (Responds(p, "GET search-history") /\ req'[p].res.status = 200) =>
           LET r == req'[p].res.history
           IN  /\ MostRecent(r, req[p].user.userId)
               /\ \A i \in 1..(Len(r) - 1) :
                    r[i].createdAt > r[i + 1].createdAt]_vars

\* C5 (amended): a successful GET by u returns min(N, 50) documents, all u's,
\* the most recently created ones, none created earlier than the next.
C5_Descending ==
    [][\A p \in Conns :
         (Responds(p, "GET search-history") /\ req'[p].res.status = 200) =>
           LET r == req'[p].res.history
           IN  /\ MostRecent(r, req[p].user.userId)
               /\ \A i \in 1..(Len(r) - 1) :
                    r[i].createdAt >= r[i + 1].createdAt]_vars

\* C5: a GET has returned 50 of a user's 51 documents, the one created after
\* boot among them.
C5_Witness ==
    \E p \in Conns :
        /\ req[p].pc = "done"
        /\ req[p].route = "GET search-history"
        /\ req[p].res.status = 200
        /\ Len(req[p].res.history) = HistoryLimit
        /\ Cardinality(Owned(req[p].user.userId)) > HistoryLimit
        /\ \E i \in 1..HistoryLimit : req[p].res.history[i]._id \in NewHistoryIds

\* C6: a GET by u that arrives after a DELETE by u has succeeded returns an
\* empty list when no analyze request of u has arrived since the DELETE.
C6_EmptyAfterDelete ==
    [][\A g \in Conns :
         (/\ Responds(g, "GET search-history")
          /\ req'[g].res.status = 200
          /\ req[g].follows
          /\ \E d \in Conns \ {g} : /\ Cleared(req[d], req[g].user.userId)
                                    /\ req[d].since # "analyzed")
           => req'[g].res.history = <<>>]_vars

\* C6 (amended): a GET by u that arrives after a DELETE by u has succeeded
\* returns an empty list when no analyze request of u was in flight at the
\* DELETE and none has arrived since.
C6_EmptyAfterQuietDelete ==
    [][\A g \in Conns :
         (/\ Responds(g, "GET search-history")
          /\ req'[g].res.status = 200
          /\ req[g].follows
          /\ \E d \in Conns \ {g} : /\ Cleared(req[d], req[g].user.userId)
                                    /\ req[d].since = "quiet")
           => req'[g].res.history = <<>>]_vars

\* C6: al, whose backlog was stored, has cleared it and then read an empty
\* list.
C6_Witness ==
    \E g, d \in Conns :
        /\ req[g].pc = "done"
        /\ req[g].route = "GET search-history"
        /\ req[g].res.status = 200
        /\ req[g].user.userId = 1
        /\ req[g].res.history = <<>>
        /\ Cleared(req[d], 1)
        /\ req[d].since = "quiet"

\* C7: every document a step stores is stored by the save of an analyze
\* request, and its text is the first 500 characters of the submitted text,
\* all of it when it is shorter.
C7_StoredTextIsPrefix ==
    [][\A e \in history' \ history :
         /\ TextLen(e.text) <= TextLimit
         /\ \E p \in Conns :
              /\ Responds(p, "POST analyze")
              /\ req[p].pc = "analyze_save"
              /\ e.userId = req[p].user.userId
              /\ FirstChars(e.text, req[p].body.text)]_vars

\* C7: a text of more than 500 characters has been stored as 500.
C7_Witness ==
    \E p \in Conns :
        /\ req[p].pc = "done"
        /\ req[p].route = "POST analyze"
        /\ req[p].res.status = 200
        /\ TextLen(req[p].body.text) > TextLimit
        /\ \E e \in history : /\ e._id \in NewHistoryIds
                              /\ TextLen(e.text) = TextLimit

\* r is a response with status s that the middleware sent: req.user is not
\* set.
Rejected(r, s) ==
    /\ r.pc = "done"
    /\ r.res.status = s
    /\ "user" \notin DOMAIN r

\* C8: a request to a protected route with no token is answered 401, one
\* with a token of another signature or past its expiry 403; neither reaches
\* the handler, and the history is as it was.  A handler runs only for the
\* payload of a token that verifies.
C8_AuthRequired ==
    [][\A p \in Conns :
         /\ (Free(p) /\ req'[p] # req[p] /\ req'[p].route \in ProtectedRoutes)
              => LET h == req'[p].authHeader
                 IN  IF Len(h) < 2
                     THEN Rejected(req'[p], 401) /\ history' = history
                     ELSE IF \/ h[2].secret # JWT_SECRET
                             \/ h[2].exp <= Seconds(now)
                          THEN Rejected(req'[p], 403) /\ history' = history
                          ELSE TRUE
         /\ (~Free(p) /\ req[p].route \in ProtectedRoutes)
              => /\ Len(req[p].authHeader) >= 2
                 /\ req[p].authHeader[2].secret = JWT_SECRET
                 /\ req[p].user = req[p].authHeader[2].payload]_vars

\* C8: a request without token has been answered 401 and one with an expired
\* token 403.
C8_Witness ==
    \E p, q \in Conns :
        /\ Rejected(req[p], 401)
        /\ req[p].route = "POST analyze"
        /\ Rejected(req[q], 403)
        /\ req[q].authHeader[2].secret = JWT_SECRET

\* An analyze request is answered 200 only by the step that stores its
\* document, and 500 by every step that stores none.
AnalyzeStores(p) ==
    IF history' # history
    THEN /\ req'[p].res.status = 200
         /\ \E e \in history' \ history :
              /\ e.userId = req[p].user.userId
              /\ e.analysis = req'[p].res.analysis
              /\ FirstChars(e.text, req[p].body.text)
    ELSE req'[p].res.status = 500

\* C9: an analyze request answered 200 has stored its document, one whose
\* provider call or save fails is answered 500, and a GET by u returns every
\* stored document of u that fewer than 50 documents of u are newer than.
C9_StoredAndListed ==
    [][\A p \in Conns :
         /\ Responds(p, "POST analyze") => AnalyzeStores(p)
         /\ (Responds(p, "GET search-history") /\ req'[p].res.status = 200) =>
              \A e \in Owned(req[p].user.userId) :
                Cardinality({f \in Owned(req[p].user.userId) :
                               f.createdAt > e.createdAt}) < HistoryLimit
                  => e \in Range(req'[p].res.history)]_vars

\* C9 (amended): an analyze request answered 200 has stored its document,
\* one whose provider call or save fails is answered 500, and a GET by u
\* returns every stored document of u that fewer than 50 other documents of
\* u are as new as or newer than.
C9_StoredAndListedUnlessTied ==
    [][\A p \in Conns :
         /\ Responds(p, "POST analyze") => AnalyzeStores(p)
         /\ (Responds(p, "GET search-history") /\ req'[p].res.status = 200) =>
              \A e \in Owned(req[p].user.userId) :
                Cardinality({f \in Owned(req[p].user.userId) \ {e} :
                               f.createdAt >= e.createdAt}) < HistoryLimit
                  => e \in Range(req'[p].res.history)]_vars

\* C9: an analyze request of u has been answered 200, and a GET by u has
\* returned the document it stored.
C9_Witness ==
    \E p, g \in Conns :
        /\ req[p].pc = "done"
        /\ req[p].route = "POST analyze"
        /\ req[p].res.status = 200
        /\ req[g].pc = "done"
        /\ req[g].route = "GET search-history"
        /\ req[g].res.status = 200
        /\ req[g].user.userId = req[p].user.userId
        /\ \E e \in Range(req[g].res.history) \cap history :
             e._id \in NewHistoryIds

\* C10: a request to a protected route that carries a password-reset token
\* is answered 401 or 403.
C10_ResetTokenRefused ==
    \A p \in Conns :
        (/\ req[p].route \in ProtectedRoutes
         /\ Len(req[p].authHeader) >= 2
         /\ "username" \notin DOMAIN req[p].authHeader[2].payload)
          => (req[p].pc = "done" /\ req[p].res.status \in {401, 403})

(* ------------------------------ behaviours ---------------------------- *)

\* A fresh database.
Init ==
    /\ users = {}
    /\ history = {}
    /\ now = 0
    /\ issued = {}
    /\ req = [p \in Conns |-> Idle]

\* The users of a loaded database, who signed up before boot.
\* Al signed up long enough before boot for that session token to have
\* expired, and has logged in again since.
LongAgo == 0 - (SessionTTL + 1) * 1000

Al == [_id |-> 1, username |-> "al", email |-> "al@x.com",
       password |-> Hash("pw", "s1"), createdAt |-> LongAgo]

Bob == [_id |-> 2, username |-> "bob", email |-> "bob@x.com",
        password |-> Hash("pw", "s1"), createdAt |-> 0 - Backlog]

LoadedTokens ==
    {SessionToken(Al, LongAgo), SessionToken(Al, 0 - Backlog),
     SessionToken(Bob, 0 - Backlog)}

\* The i-th document of the backlog, created at time t by al.
Old(i, t) == [_id |-> i, userId |-> Al._id, text |-> <<Run("o", 1)>>,
              analysis |-> "markdown", createdAt |-> t]

\* A database that earlier runs have loaded: two users holding their session
\* tokens, and al's backlog, one document a millisecond up to boot.
InitLoaded ==
    /\ users = {Al, Bob}
    /\ history = {Old(i, i - Backlog) : i \in 1..Backlog}
    /\ now = 0
    /\ issued = LoadedTokens
    /\ req = [p \in Conns |-> Idle]

\* The same, with the two oldest documents created in the same millisecond.
InitTied ==
    /\ users = {Al, Bob}
    /\ history = {Old(i, (IF i = 1 THEN 2 ELSE i) - Backlog) : i \in 1..Backlog}
    /\ now = 0
    /\ issued = LoadedTokens
    /\ req = [p \in Conns |-> Idle]

NextAuth ==
    \/ \E p \in Conns, username \in Usernames, email \in Emails,
          password \in Passwords : Signup(p, username, email, password)
    \/ \E p \in Conns : SignupFindOneDone(p)
    \/ \E p \in Conns : SignupHashDone(p)
    \/ \E p \in Conns : SignupSaveDone(p)
    \/ \E p \in Conns, username \in Usernames \cup Emails,
          password \in Passwords : Login(p, username, password)
    \/ \E p \in Conns : LoginFindOneDone(p)
    \/ \E p \in Conns : LoginCompareDone(p)
    \/ \E p \in Conns, email \in Emails : ForgotUsername(p, email)
    \/ \E p \in Conns : ForgotUsernameFindOneDone(p)
    \/ \E p \in Conns : ForgotUsernameSendMailDone(p)

NextHistory ==
    \/ \E p \in Conns, username \in Usernames, email \in Emails :
          ForgotPassword(p, username, email)
    \/ \E p \in Conns : ForgotPasswordFindOneDone(p)
    \/ \E p \in Conns : ForgotPasswordSendMailDone(p)
    \/ \E p \in Conns, authHeader \in AuthHeaders : GetHistory(p, authHeader)
    \/ \E p \in Conns : GetHistoryFindDone(p)
    \/ \E p \in Conns : GetHistoryFindFailed(p)
    \/ \E p \in Conns, authHeader \in AuthHeaders :
          DeleteHistory(p, authHeader)
    \/ \E p \in Conns : DeleteHistoryDone(p)
    \/ \E p \in Conns : DeleteHistoryFailed(p)
    \/ \E p \in Conns, authHeader \in AuthHeaders,
          text \in Texts \cup {NoText} : Analyze(p, authHeader, text)
    \/ \E p \in Conns : AnalyzeGenerateFailed(p)
    \/ \E p \in Conns : AnalyzeGenerateDone(p)
    \/ \E p \in Conns : AnalyzeSaveDone(p)
    \/ \E p \in Conns : AnalyzeSaveFailed(p)
    \/ Tick

Next == NextAuth \/ NextHistory

\* The whole server from a fresh database.
Spec == Init /\ [][Next]_vars

\* The account routes from a fresh database.
SpecAuth == Init /\ [][NextAuth]_vars

\* The history routes, and the reset token, on a loaded database.
SpecHistory == InitLoaded /\ [][NextHistory]_vars

SpecTied == InitTied /\ [][NextHistory]_vars

=============================================================================
